---- MODULE Spec2Model ----
(***************************************************************************)
(* Live Variant colour remapper: the shader node graph that                *)
(* apply_color_remaps builds (utils/color_remap.py), its callers           *)
(* apply_multi_remap (utils/multi_remap_controller.py) and the operators   *)
(* of the panel (utils/ui.py), over one base object and one variant.       *)
(*                                                                         *)
(* Numbers.  The host's floats are modelled in fixed point: a channel or a *)
(* scalar socket value v stands for v / Unit, a tolerance t stands for     *)
(* t / TolUnit (the finer grid holds the 1e-5 of the code).  Square roots  *)
(* and quotients round down to the grid.                                   *)
(***************************************************************************)
EXTENDS Integers, Sequences, FiniteSets, TLC

VARIABLES active_object, has_variant, materials, base_slots, variant_slots,
          remap_list, call

vars == <<active_object, has_variant, materials, base_slots, variant_slots,
          remap_list, call>>

-----------------------------------------------------------------------------
(* Bounds of the model *)

MaxRemaps == 2

-----------------------------------------------------------------------------
(* Numbers and colours *)

Unit == 1000
TolUnit == Unit * Unit

EPSILON == 10
MultiRemapTolerance == 80000

White == <<Unit, Unit, Unit, Unit>>
Red == <<Unit, 0, 0, Unit>>
Blue == <<0, Unit \div 5, Unit, Unit>>
Black == <<0, 0, 0, Unit>>
\* half of apply_multi_remap's default tolerance, in channel units
HalfTolerance == (MultiRemapTolerance * Unit) \div (2 * TolUnit)
\* at that distance from White and from Red, on the blue channel
NearWhite == <<Unit, Unit, Unit - HalfTolerance, Unit>>
NearRed == <<Unit, 0, HalfTolerance, Unit>>
\* White with half its alpha
TranslucentWhite == <<Unit, Unit, Unit, Unit \div 2>>

\* the colours the panel's pickers are set to, the texture samples looked at,
\* and the tolerances the functions are called with
SourcePalette == {White, NearRed}
TargetPalette == {Red, Blue}
Samples == {White, NearWhite, TranslucentWhite, Red, NearRed, Blue, Black}
Tolerances == {0 - MultiRemapTolerance, 0, EPSILON \div 2, MultiRemapTolerance}

Max(a, b) == IF a >= b THEN a ELSE b

RECURSIVE IsqrtBetween(_, _, _)
IsqrtBetween(n, lo, hi) ==
    IF lo >= hi THEN lo
    ELSE LET mid == (lo + hi + 1) \div 2
         IN  IF mid * mid <= n THEN IsqrtBetween(n, mid, hi)
                               ELSE IsqrtBetween(n, lo, mid - 1)

Sqrt(n) == IsqrtBetween(n, 0, 4 * Unit)

-----------------------------------------------------------------------------
(* Node trees: nodes in creation order, links between sockets *)

NoColor == <<0, 0, 0, 0>>
Half == Unit \div 2
Grey == <<Half, Half, Half, Unit>>

Node(type, operation, color, defaults, image) ==
    [type |-> type, operation |-> operation, color |-> color,
     defaults |-> defaults, image |-> image]

EmptyTree == [nodes |-> << >>, links |-> {}]

NodesNew(nt, node) == [nt EXCEPT !.nodes = Append(@, node)]

\* nt.links.new(output, input): an input socket holds one link
LinksNew(nt, from_node, from_socket, to_node, to_socket) ==
    [nt EXCEPT !.links =
        {l \in @ : ~(l.to_node = to_node /\ l.to_socket = to_socket)}
        \cup {[from_node |-> from_node, from_socket |-> from_socket,
               to_node |-> to_node, to_socket |-> to_socket]}]

OutputMaterial == Node("ShaderNodeOutputMaterial", "", NoColor, << >>, "")
BsdfPrincipled == Node("ShaderNodeBsdfPrincipled", "", NoColor, << >>, "")
TexImage(image) == Node("ShaderNodeTexImage", "", NoColor, << >>, image)
RGB(color) == Node("ShaderNodeRGB", "", color, << >>, "")
VectorMath(operation) == Node("ShaderNodeVectorMath", operation, NoColor, << >>, "")
Math(operation, in0, in1) == Node("ShaderNodeMath", operation, NoColor, <<in0, in1>>, "")
ClampNode == Node("ShaderNodeClamp", "MINMAX", NoColor, <<Unit, 0, Unit>>, "")
MixRGB == Node("ShaderNodeMixRGB", "MIX", Grey, <<Half>>, "")

-----------------------------------------------------------------------------
(* apply_color_remaps: the graph of the remap material *)

Socket(node, socket) == [node |-> node, socket |-> socket]

\* mutant: the tolerance is stored as passed
DivisorUncoerced(tolerance) == tolerance

\* div.inputs[1].default_value
Divisor(tolerance) == Max(tolerance, EPSILON)

\* the seven nodes of one pair, appended in the order the code creates them
PairNodes(nt, source_color, target_color, tolerance) ==
    LET n1 == NodesNew(nt, RGB(source_color))
        n2 == NodesNew(n1, RGB(target_color))
        n3 == NodesNew(n2, VectorMath("DISTANCE"))
        n4 == NodesNew(n3, Math("DIVIDE", Half, Divisor(tolerance)))
        n5 == NodesNew(n4, Math("SUBTRACT", Unit, Half))
        n6 == NodesNew(n5, ClampNode)
    IN  NodesNew(n6, MixRGB)

\* mutant: the distance is taken from the texture sample, not from the
\* running colour
FactorLinksFromTexture(nt, last_color_output, src_col) ==
    LET dist == src_col + 2
        div == src_col + 3
        sub == src_col + 4
        clamp == src_col + 5
        tex == CHOOSE i \in 1..Len(nt.nodes) : nt.nodes[i].type = "ShaderNodeTexImage"
        l1 == LinksNew(nt, tex, "Color", dist, "inputs[0]")
        l2 == LinksNew(l1, src_col, "Color", dist, "inputs[1]")
        l3 == LinksNew(l2, dist, "Value", div, "inputs[0]")
        l4 == LinksNew(l3, div, "Value", sub, "inputs[1]")
    IN  LinksNew(l4, sub, "Value", clamp, "Value")

\* the links that compute one pair's blend factor; src_col is the id of the
\* pair's first node
FactorLinks(nt, last_color_output, src_col) ==
    LET dist == src_col + 2
        div == src_col + 3
        sub == src_col + 4
        clamp == src_col + 5
        l1 == LinksNew(nt, last_color_output.node, last_color_output.socket, dist, "inputs[0]")
        l2 == LinksNew(l1, src_col, "Color", dist, "inputs[1]")
        l3 == LinksNew(l2, dist, "Value", div, "inputs[0]")
        l4 == LinksNew(l3, div, "Value", sub, "inputs[1]")
    IN  LinksNew(l4, sub, "Value", clamp, "Value")

\* mutant: the two colour inputs of the mix node exchanged
MixLinksSwapped(nt, last_color_output, src_col) ==
    LET tgt_col == src_col + 1
        clamp == src_col + 5
        mix == src_col + 6
        l6 == LinksNew(nt, last_color_output.node, last_color_output.socket, mix, "inputs[2]")
        l7 == LinksNew(l6, tgt_col, "Color", mix, "inputs[1]")
    IN  LinksNew(l7, clamp, "Result", mix, "Fac")

\* mutant: the clamp node is not linked to the mix factor
MixLinksNoFac(nt, last_color_output, src_col) ==
    LET tgt_col == src_col + 1
        mix == src_col + 6
        l6 == LinksNew(nt, last_color_output.node, last_color_output.socket, mix, "inputs[1]")
    IN  LinksNew(l6, tgt_col, "Color", mix, "inputs[2]")

\* the links into one pair's mix node
MixLinks(nt, last_color_output, src_col) ==
    LET tgt_col == src_col + 1
        clamp == src_col + 5
        mix == src_col + 6
        l6 == LinksNew(nt, last_color_output.node, last_color_output.socket, mix, "inputs[1]")
        l7 == LinksNew(l6, tgt_col, "Color", mix, "inputs[2]")
    IN  LinksNew(l7, clamp, "Result", mix, "Fac")

\* the links of one pair
PairLinks(nt, last_color_output, src_col) ==
    MixLinks(FactorLinks(nt, last_color_output, src_col), last_color_output, src_col)

\* mutant: the running colour is not advanced to the pair's mix node
MixOutputStale(last_color_output, src_col) == last_color_output

\* last_color_output after a pair whose first node is src_col
MixOutput(last_color_output, src_col) == Socket(src_col + 6, "Color")

\* the loop over remap_pairs from index i on
RECURSIVE RemapChain(_, _, _, _, _)
RemapChain(nt, last_color_output, remap_pairs, i, tolerance) ==
    IF i > Len(remap_pairs) THEN [nt |-> nt, last |-> last_color_output]
    ELSE LET src_col == Len(nt.nodes) + 1
             withNodes == PairNodes(nt, remap_pairs[i][1], remap_pairs[i][2], tolerance)
             withLinks == PairLinks(withNodes, last_color_output, src_col)
         IN  RemapChain(withLinks, MixOutput(last_color_output, src_col),
                        remap_pairs, i + 1, tolerance)

\* mutant: the texture, not the chain tail, is linked to the BSDF
ConnectFinalOutputFromTexture(nt, last_color_output, bsdf, out) ==
    LinksNew(LinksNew(nt, CHOOSE i \in 1..Len(nt.nodes) : nt.nodes[i].type = "ShaderNodeTexImage",
                      "Color", bsdf, "Base Color"),
             bsdf, "BSDF", out, "Surface")

\* the final links: chain tail to the BSDF, the BSDF to the output
ConnectFinalOutput(nt, last_color_output, bsdf, out) ==
    LinksNew(LinksNew(nt, last_color_output.node, last_color_output.socket,
                      bsdf, "Base Color"),
             bsdf, "BSDF", out, "Surface")

\* the node tree of the remap material
RemapTree(src_img, remap_pairs, tolerance) ==
    LET n1 == NodesNew(EmptyTree, OutputMaterial)
        n2 == NodesNew(n1, BsdfPrincipled)
        n3 == NodesNew(n2, TexImage(src_img))
        out == Len(n1.nodes)
        bsdf == Len(n2.nodes)
        tex == Len(n3.nodes)
        chain == RemapChain(n3, Socket(tex, "Color"), remap_pairs, 1, tolerance)
    IN  ConnectFinalOutput(chain.nt, chain.last, bsdf, out)

-----------------------------------------------------------------------------
(* What the host computes from a node tree for one texture sample *)

\* ShaderNodeVectorMath DISTANCE: vector sockets carry three components,
\* a colour linked into one loses its alpha
VectorMathDistance(a, b) ==
    Sqrt((a[1] - b[1]) * (a[1] - b[1]) + (a[2] - b[2]) * (a[2] - b[2])
         + (a[3] - b[3]) * (a[3] - b[3]))

\* ShaderNodeMath DIVIDE: a in channel units, b in tolerance units; 0 when b = 0
MathDivide(a, b) == IF b = 0 THEN 0 ELSE (a * TolUnit) \div b

MathSubtract(a, b) == a - b

ClampMinMax(v, min, max) == IF v < min THEN min ELSE IF v > max THEN max ELSE v

\* ShaderNodeMixRGB MIX: the factor is clamped, the alpha is Color1's
MixBlend(fac, col1, col2) ==
    LET f == ClampMinMax(fac, 0, Unit)
        ch(k) == (col1[k] * (Unit - f) + col2[k] * f) \div Unit
    IN  <<ch(1), ch(2), ch(3), col1[4]>>

LinkInto(nt, node, socket) ==
    {l \in nt.links : l.to_node = node /\ l.to_socket = socket}

IsLinked(nt, node, socket) == LinkInto(nt, node, socket) # {}

LinkedFrom(nt, node, socket) == (CHOOSE l \in LinkInto(nt, node, socket) : TRUE).from_node

RECURSIVE ColorOutput(_, _, _), ValueOutput(_, _, _)

ColorInput(nt, node, socket, sample) ==
    IF IsLinked(nt, node, socket)
    THEN ColorOutput(nt, LinkedFrom(nt, node, socket), sample)
    ELSE nt.nodes[node].color

ValueInput(nt, node, socket, k, sample) ==
    IF IsLinked(nt, node, socket)
    THEN ValueOutput(nt, LinkedFrom(nt, node, socket), sample)
    ELSE nt.nodes[node].defaults[k]

ColorOutput(nt, node, sample) ==
    LET n == nt.nodes[node]
    IN  CASE n.type = "ShaderNodeTexImage" -> sample
          [] n.type = "ShaderNodeRGB" -> n.color
          [] n.type = "ShaderNodeMixRGB" ->
                MixBlend(ValueInput(nt, node, "Fac", 1, sample),
                         ColorInput(nt, node, "inputs[1]", sample),
                         ColorInput(nt, node, "inputs[2]", sample))
          [] OTHER -> NoColor

ValueOutput(nt, node, sample) ==
    LET n == nt.nodes[node]
    IN  CASE n.type = "ShaderNodeVectorMath" ->
                VectorMathDistance(ColorInput(nt, node, "inputs[0]", sample),
                                   ColorInput(nt, node, "inputs[1]", sample))
          [] n.type = "ShaderNodeMath" /\ n.operation = "DIVIDE" ->
                MathDivide(ValueInput(nt, node, "inputs[0]", 1, sample),
                           ValueInput(nt, node, "inputs[1]", 2, sample))
          [] n.type = "ShaderNodeMath" /\ n.operation = "SUBTRACT" ->
                MathSubtract(ValueInput(nt, node, "inputs[0]", 1, sample),
                             ValueInput(nt, node, "inputs[1]", 2, sample))
          [] n.type = "ShaderNodeClamp" ->
                ClampMinMax(ValueInput(nt, node, "Value", 1, sample),
                            n.defaults[2], n.defaults[3])
          [] OTHER -> 0

NodesOfType(nt, type) == {i \in 1..Len(nt.nodes) : nt.nodes[i].type = type}

\* the colour entering the shading node's base-colour input
BaseColor(nt, sample) ==
    LET bsdf == CHOOSE i \in NodesOfType(nt, "ShaderNodeBsdfPrincipled") : TRUE
    IN  ColorInput(nt, bsdf, "Base Color", sample)

-----------------------------------------------------------------------------
(* Materials and objects *)

Material(name, node_tree) == [name |-> name, use_nodes |-> TRUE, node_tree |-> node_tree]

\* a new material with use_nodes set: the host's default shading node and output
DefaultTree ==
    LET n1 == NodesNew(EmptyTree, BsdfPrincipled)
        n2 == NodesNew(n1, OutputMaterial)
    IN  LinksNew(n2, 1, "BSDF", 2, "Surface")

\* create_base_material_with_texture: texture, shading node, output
TexturedTree ==
    LET n1 == NodesNew(EmptyTree, TexImage("BaseTex"))
        n2 == NodesNew(n1, BsdfPrincipled)
        n3 == NodesNew(n2, OutputMaterial)
    IN  LinksNew(LinksNew(n3, 1, "Color", 2, "Base Color"), 2, "BSDF", 3, "Surface")

BaseMaterials == [none |-> << >>,
                  plain |-> <<Material("BaseMaterial", DefaultTree)>>,
                  textured |-> <<Material("BaseMaterial", TexturedTree)>>]

\* obj.active_material as an index into bpy.data.materials, 0 for None
ActiveMaterial(slots) == IF Len(slots) = 0 THEN 0 ELSE slots[1]

\* the image of the first TEX_IMAGE node that has one, "" for None
SrcImage(mat) ==
    LET nt == mat.node_tree
        found == {i \in NodesOfType(nt, "ShaderNodeTexImage") : nt.nodes[i].image # ""}
    IN  IF mat.use_nodes /\ found # {}
        THEN nt.nodes[CHOOSE i \in found : \A j \in found : i <= j].image
        ELSE ""

\* the (source, target) tuples GenerateVariant collects from the scene's list
RemapPairs(list) == [i \in 1..Len(list) |-> <<list[i].source_color, list[i].target_color>>]

Outcome(ret, mats, vslots, prints) ==
    [ret |-> ret, materials |-> mats, variant_slots |-> vslots, prints |-> prints]

\* mutant: the material is appended to slots that were not cleared
AppendMaterial(vslots, mat) == Append(vslots, mat)

\* variant_obj.data.materials.clear() and .append(mat)
AssignMaterial(vslots, mat) == <<mat>>

\* apply_color_remaps(base_obj, variant_obj, remap_pairs, tolerance)
ApplyColorRemapsCall(base_obj, variant_obj, remap_pairs, tolerance, mats, bslots, vslots) ==
    IF ~(base_obj /\ variant_obj)
    THEN Outcome(0, mats, vslots, <<"Both base and variant objects are required.">>)
    ELSE IF ActiveMaterial(bslots) = 0
    THEN Outcome(0, mats, vslots, <<"Base object has no material to copy from.">>)
    ELSE IF SrcImage(mats[ActiveMaterial(bslots)]) = ""
    THEN Outcome(0, mats, vslots, <<"No texture image found in base material.">>)
    ELSE LET src_img == SrcImage(mats[ActiveMaterial(bslots)])
             remap_mat == Material("RemapMaterial", RemapTree(src_img, remap_pairs, tolerance))
             mats2 == Append(mats, remap_mat)
         IN  Outcome(Len(mats2), mats2, AssignMaterial(vslots, Len(mats2)),
                     <<"Applied color remaps">>)

\* mutant: an empty remap_list is passed on to apply_color_remaps
ApplyMultiRemapCallNoEmptyBranch(base_obj, variant_obj, remap_pairs, tolerance, mats, bslots, vslots) ==
    IF ~base_obj \/ ~variant_obj
    THEN Outcome(0, mats, vslots, <<"Both base and variant objects must be provided.">>)
    ELSE LET inner == ApplyColorRemapsCall(base_obj, variant_obj, remap_pairs,
                                           tolerance, mats, bslots, vslots)
         IN  Outcome(0, inner.materials, inner.variant_slots,
                     <<"Applying remaps">> \o inner.prints
                        \o <<"Multi-remap applied successfully.">>)

\* apply_multi_remap(base_obj, variant_obj, remap_list, tolerance)
ApplyMultiRemapCall(base_obj, variant_obj, remap_pairs, tolerance, mats, bslots, vslots) ==
    IF ~base_obj \/ ~variant_obj
    THEN Outcome(0, mats, vslots, <<"Both base and variant objects must be provided.">>)
    ELSE IF Len(remap_pairs) = 0
    THEN IF ActiveMaterial(bslots) # 0
         THEN LET mat_copy == mats[ActiveMaterial(bslots)]
                  mats2 == Append(mats, mat_copy)
              IN  Outcome(0, mats2, AssignMaterial(vslots, Len(mats2)),
                          <<"No remaps defined">>)
         ELSE Outcome(0, mats, vslots, <<"No remaps defined">>)
    ELSE LET inner == ApplyColorRemapsCall(base_obj, variant_obj, remap_pairs,
                                           tolerance, mats, bslots, vslots)
         IN  Outcome(0, inner.materials, inner.variant_slots,
                     <<"Applying remaps">> \o inner.prints
                        \o <<"Multi-remap applied successfully.">>)

-----------------------------------------------------------------------------
(* State *)

Call(op, tolerance, o, report, result) ==
    [op |-> op, tolerance |-> tolerance, ret |-> o.ret, prints |-> o.prints,
     report |-> report, result |-> result]

NoCall == [op |-> "", tolerance |-> 0, ret |-> 0, prints |-> << >>,
           report |-> <<"", "">>, result |-> ""]

Init ==
    /\ active_object \in BOOLEAN
    /\ has_variant \in BOOLEAN
    /\ \E kind \in {"none", "plain", "textured"} :
          /\ materials = BaseMaterials[kind]
          /\ base_slots = [i \in 1..Len(materials) |-> i]
    /\ variant_slots = IF has_variant THEN base_slots ELSE << >>
    /\ remap_list = << >>
    /\ call = NoCall

-----------------------------------------------------------------------------
(* The panel's list of remap pairs *)

LV_OT_AddRemap ==
    /\ Len(remap_list) < MaxRemaps
    /\ remap_list' = Append(remap_list, [source_color |-> White, target_color |-> Red])
    /\ UNCHANGED <<active_object, has_variant, materials, base_slots, variant_slots, call>>

LV_OT_RemoveRemap ==
    /\ remap_list' = IF Len(remap_list) > 0
                     THEN SubSeq(remap_list, 1, Len(remap_list) - 1)
                     ELSE remap_list
    /\ UNCHANGED <<active_object, has_variant, materials, base_slots, variant_slots, call>>

SetSourceColor ==
    /\ \E i \in 1..Len(remap_list), c \in SourcePalette :
          remap_list' = [remap_list EXCEPT ![i].source_color = c]
    /\ UNCHANGED <<active_object, has_variant, materials, base_slots, variant_slots, call>>

SetTargetColor ==
    /\ \E i \in 1..Len(remap_list), c \in TargetPalette :
          remap_list' = [remap_list EXCEPT ![i].target_color = c]
    /\ UNCHANGED <<active_object, has_variant, materials, base_slots, variant_slots, call>>

-----------------------------------------------------------------------------
(* Remap invocations *)

Effect(o) ==
    /\ materials' = o.materials
    /\ variant_slots' = o.variant_slots
    /\ UNCHANGED <<active_object, has_variant, base_slots, remap_list>>

\* Spec follows a pair up to the first material an invocation creates:
\* bpy.data.materials still holds the base object's materials alone
Fresh == Len(materials) = Len(base_slots)

\* LV_OT_GenerateVariant.execute
GenerateVariantExecute ==
    /\ IF ~active_object
       THEN /\ call' = Call("LV_OT_GenerateVariant", MultiRemapTolerance,
                            Outcome(0, materials, variant_slots, << >>),
                            <<"ERROR", "Select the base mesh first.">>, "CANCELLED")
            /\ Effect(Outcome(0, materials, variant_slots, << >>))
       ELSE IF ~has_variant
       THEN /\ call' = Call("LV_OT_GenerateVariant", MultiRemapTolerance,
                            Outcome(0, materials, variant_slots, << >>),
                            <<"ERROR", "Variant not found.">>, "CANCELLED")
            /\ Effect(Outcome(0, materials, variant_slots, << >>))
       ELSE LET o == ApplyMultiRemapCall(TRUE, TRUE, RemapPairs(remap_list),
                                         MultiRemapTolerance, materials,
                                         base_slots, variant_slots)
            IN  /\ call' = Call("LV_OT_GenerateVariant", MultiRemapTolerance, o,
                                <<"INFO", "Remaps applied">>, "FINISHED")
                /\ Effect(o)

LV_OT_GenerateVariant == Fresh /\ GenerateVariantExecute

\* a call of apply_multi_remap on the pair
MultiRemapInvoked ==
    /\ \E tolerance \in Tolerances :
          LET o == ApplyMultiRemapCall(active_object, has_variant, RemapPairs(remap_list),
                                       tolerance, materials, base_slots, variant_slots)
          IN  /\ call' = Call("apply_multi_remap", tolerance, o, <<"", "">>, "")
              /\ Effect(o)

apply_multi_remap == Fresh /\ MultiRemapInvoked

\* a call of apply_color_remaps on the pair
ColorRemapsInvoked ==
    /\ \E tolerance \in Tolerances :
          LET o == ApplyColorRemapsCall(active_object, has_variant, RemapPairs(remap_list),
                                        tolerance, materials, base_slots, variant_slots)
          IN  /\ call' = Call("apply_color_remaps", tolerance, o, <<"", "">>, "")
              /\ Effect(o)

apply_color_remaps == Fresh /\ ColorRemapsInvoked

Next ==
    \/ LV_OT_AddRemap
    \/ LV_OT_RemoveRemap
    \/ SetSourceColor
    \/ SetTargetColor
    \/ LV_OT_GenerateVariant
    \/ apply_multi_remap
    \/ apply_color_remaps

Spec == Init /\ [][Next]_vars

-----------------------------------------------------------------------------
(* Repeated invocations on the same pair *)

MaxMaterials == 3

\* SpecRepeat follows a pair through invocation after invocation, while
\* bpy.data.materials holds fewer than MaxMaterials materials
Room == Len(materials) < MaxMaterials

RepeatGenerateVariant == Room /\ GenerateVariantExecute
RepeatMultiRemap == Room /\ MultiRemapInvoked
RepeatColorRemaps == Room /\ ColorRemapsInvoked

NextRepeat ==
    \/ LV_OT_AddRemap
    \/ LV_OT_RemoveRemap
    \/ RepeatGenerateVariant
    \/ RepeatMultiRemap
    \/ RepeatColorRemaps

SpecRepeat == Init /\ [][NextRepeat]_vars

-----------------------------------------------------------------------------
(* The remap chain as the specification words it, for comparison *)

RGBOf(c) == <<c[1], c[2], c[3]>>

Sq(x) == x * x

\* Euclidean distance over the four channels, and over red, green and blue
RefDistance4(a, b) == Sqrt(Sq(a[1] - b[1]) + Sq(a[2] - b[2]) + Sq(a[3] - b[3]) + Sq(a[4] - b[4]))
RefDistance3(a, b) == Sqrt(Sq(a[1] - b[1]) + Sq(a[2] - b[2]) + Sq(a[3] - b[3]))

\* max(tolerance, 1e-5)
RefTolerance(t) == IF t > EPSILON THEN t ELSE EPSILON

\* clamp(1 - d / max(tolerance, 1e-5), 0, 1)
RefFactor(d, t) ==
    LET v == Unit - (d * TolUnit) \div RefTolerance(t)
    IN  IF v < 0 THEN 0 ELSE IF v > Unit THEN Unit ELSE v

\* current * (1 - factor) + target * factor, on all four channels
RefLerp4(cur, tgt, f) == [k \in 1..4 |-> (cur[k] * (Unit - f) + tgt[k] * f) \div Unit]

\* the same on red, green and blue, the alpha left as it is
RefLerp3(cur, tgt, f) ==
    [k \in 1..4 |-> IF k = 4 THEN cur[4] ELSE (cur[k] * (Unit - f) + tgt[k] * f) \div Unit]

RECURSIVE RefFold4(_, _, _, _), RefFold3(_, _, _, _)
RefFold4(cur, pairs, i, t) ==
    IF i > Len(pairs) THEN cur
    ELSE RefFold4(RefLerp4(cur, pairs[i][2], RefFactor(RefDistance4(cur, pairs[i][1]), t)),
                  pairs, i + 1, t)

RefFold3(cur, pairs, i, t) ==
    IF i > Len(pairs) THEN cur
    ELSE RefFold3(RefLerp3(cur, pairs[i][2], RefFactor(RefDistance3(cur, pairs[i][1]), t)),
                  pairs, i + 1, t)

\* a step that appends a remap material to bpy.data.materials, the material's
\* tree, and the arguments the step was called with
BuildsRemapMaterial ==
    /\ Len(materials') = Len(materials) + 1
    /\ materials'[Len(materials')].name = "RemapMaterial"
BuiltTree == materials'[Len(materials')].node_tree
ArgPairs == RemapPairs(remap_list)
ArgTolerance == call'.tolerance

\* the tree of the remap material the variant holds, once one was returned
HoldsRemapMaterial ==
    /\ Len(variant_slots) = 1
    /\ materials[variant_slots[1]].name = "RemapMaterial"
HeldTree == materials[variant_slots[1]].node_tree

-----------------------------------------------------------------------------
\* C1 (as stated): every remap material built feeds the shading node, for
\* every sample, the fold over the chain in list order with the distance
\* taken over the four channels and the blend over the four channels.
C1_FoldOverFourChannels ==
    [][BuildsRemapMaterial =>
          \A s \in Samples :
             BaseColor(BuiltTree, s) = RefFold4(s, ArgPairs, 1, ArgTolerance)]_vars

\* C1 (amended): the red, green and blue fed to the shading node are the fold
\* over the chain in list order with the distance taken over red, green and
\* blue only; for a single pair a sample with the source's red, green and
\* blue yields the target's, and one at distance tolerance / 2 yields the
\* midpoint of sample and target.
C1_FoldOverRGB ==
    [][BuildsRemapMaterial =>
          \A s \in Samples :
             LET out == BaseColor(BuiltTree, s)
                 one == ArgPairs[1]
             IN  /\ RGBOf(out) = RGBOf(RefFold3(s, ArgPairs, 1, ArgTolerance))
                 /\ (Len(ArgPairs) = 1 /\ RGBOf(s) = RGBOf(one[1]))
                        => RGBOf(out) = RGBOf(one[2])
                 /\ (Len(ArgPairs) = 1 /\ ArgTolerance >= EPSILON
                     /\ 2 * Unit * RefDistance3(s, one[1]) = ArgTolerance)
                        => \A k \in 1..3 : 2 * out[k] = s[k] + one[2][k]]_vars

\* C1 witness: the variant holds a one-pair material White -> Red built with
\* tolerance 0.08; White renders Red and NearWhite, half a tolerance away,
\* renders the midpoint.
C1_Witness ==
    /\ HoldsRemapMaterial
    /\ call.tolerance = MultiRemapTolerance
    /\ remap_list = <<[source_color |-> White, target_color |-> Red]>>
    /\ Cardinality(NodesOfType(HeldTree, "ShaderNodeMixRGB")) = 1
    /\ RGBOf(BaseColor(HeldTree, White)) = RGBOf(Red)
    /\ 2 * Unit * RefDistance3(NearWhite, White) = MultiRemapTolerance
    /\ RGBOf(BaseColor(HeldTree, NearWhite)) = <<Unit, Half, (Unit - HalfTolerance) \div 2>>

-----------------------------------------------------------------------------
\* within(s, pairs, t): the four-channel distance of s to every source is
\* below t; beyond(s, pairs, t): it is t or more for every source
RefWithin4(s, pairs, t) ==
    \A i \in 1..Len(pairs) : Unit * RefDistance4(s, pairs[i][1]) < t
RefBeyond4(s, pairs, t) ==
    \A i \in 1..Len(pairs) : Unit * RefDistance4(s, pairs[i][1]) >= t
RefBeyond3(s, pairs, t) ==
    \A i \in 1..Len(pairs) : Unit * RefDistance3(s, pairs[i][1]) >= t

\* C2 (as stated): with a tolerance above 0, a sample whose distance over the
\* four channels to every source of the chain is the tolerance or more
\* leaves the graph unmodified.
C2_FarInFourChannels ==
    [][BuildsRemapMaterial =>
          \A s \in Samples :
             (ArgTolerance > 0 /\ RefBeyond4(s, ArgPairs, ArgTolerance))
                => BaseColor(BuiltTree, s) = s]_vars

\* C2 (amended): for every tolerance, a sample whose distance over red, green
\* and blue to every source of the chain is max(tolerance, 1e-5) or more
\* leaves the graph unmodified.
C2_FarInRGB ==
    [][BuildsRemapMaterial =>
          \A s \in Samples :
             RefBeyond3(s, ArgPairs, RefTolerance(ArgTolerance))
                => BaseColor(BuiltTree, s) = s]_vars

\* C2 witness: the variant holds a material built from a non-empty chain with
\* tolerance 0.08, Black is farther than that from every source of the chain
\* and renders Black.
C2_Witness ==
    /\ HoldsRemapMaterial
    /\ call.tolerance = MultiRemapTolerance
    /\ Len(remap_list) = MaxRemaps
    /\ Cardinality(NodesOfType(HeldTree, "ShaderNodeMixRGB")) = MaxRemaps
    /\ RefBeyond3(Black, RemapPairs(remap_list), MultiRemapTolerance)
    /\ BaseColor(HeldTree, Black) = Black

-----------------------------------------------------------------------------
\* the chain in the opposite order, and the tree the same call builds from it
Reversed(pairs) == [i \in 1..Len(pairs) |-> pairs[Len(pairs) + 1 - i]]
ReversedTree ==
    RemapTree(SrcImage(materials[ActiveMaterial(base_slots)]), Reversed(ArgPairs), ArgTolerance)

\* C3 (as stated): for a chain of two pairs with different targets and a
\* sample at which the blend factor of each pair is not 0, the graph built
\* from the chain and the graph built from the reversed chain give different
\* colours.
C3_OrderAlwaysMatters ==
    [][(BuildsRemapMaterial /\ Len(ArgPairs) = 2) =>
          \A s \in Samples :
             (/\ ArgPairs[1][2] # ArgPairs[2][2]
              /\ RefFactor(RefDistance4(s, ArgPairs[1][1]), ArgTolerance) > 0
              /\ RefFactor(RefDistance4(s, ArgPairs[2][1]), ArgTolerance) > 0)
                => BaseColor(BuiltTree, s) # BaseColor(ReversedTree, s)]_vars

\* C3 (amended): for a chain of two pairs and a sample that has the red, green
\* and blue of both sources, when each target lies max(tolerance, 1e-5) or
\* more from the sources (over red, green and blue) the graph built from the
\* chain gives the first pair's target and the graph built from the reversed
\* chain gives the second pair's target: the pair applied first wins, and
\* the two orders differ when the targets differ in red, green or blue.
C3_FirstAppliedWins ==
    [][(BuildsRemapMaterial /\ Len(ArgPairs) = 2) =>
          \A s \in Samples :
             (/\ RGBOf(s) = RGBOf(ArgPairs[1][1])
              /\ RGBOf(s) = RGBOf(ArgPairs[2][1])
              /\ Unit * RefDistance3(ArgPairs[1][2], s) >= RefTolerance(ArgTolerance)
              /\ Unit * RefDistance3(ArgPairs[2][2], s) >= RefTolerance(ArgTolerance))
                => /\ RGBOf(BaseColor(BuiltTree, s)) = RGBOf(ArgPairs[1][2])
                   /\ RGBOf(BaseColor(ReversedTree, s)) = RGBOf(ArgPairs[2][2])
                   /\ RGBOf(ArgPairs[1][2]) # RGBOf(ArgPairs[2][2])
                         => BaseColor(BuiltTree, s) # BaseColor(ReversedTree, s)]_vars

\* C3 witness: the variant holds the material built from White -> Red,
\* White -> Blue; White renders Red.
C3_Witness ==
    /\ HoldsRemapMaterial
    /\ remap_list = <<[source_color |-> White, target_color |-> Red],
                      [source_color |-> White, target_color |-> Blue]>>
    /\ Cardinality(NodesOfType(HeldTree, "ShaderNodeMixRGB")) = 2
    /\ Unit * RefDistance3(Red, White) >= RefTolerance(call.tolerance)
    /\ Unit * RefDistance3(Blue, White) >= RefTolerance(call.tolerance)
    /\ RGBOf(BaseColor(HeldTree, White)) = RGBOf(Red)

-----------------------------------------------------------------------------
\* the value entering the Fac input of the mix node created last
LaterFactor(nt, s) ==
    LET mixes == NodesOfType(nt, "ShaderNodeMixRGB")
        mix == CHOOSE i \in mixes : \A j \in mixes : j <= i
    IN  ValueInput(nt, mix, "Fac", 1, s)

\* C4 (as stated): for a chain of two pairs and a sample whose distance to
\* both sources is below the tolerance, the later pair is applied with a
\* blend factor that is not 0.
C4_LaterPairAlwaysApplies ==
    [][(BuildsRemapMaterial /\ Len(ArgPairs) = 2) =>
          \A s \in Samples :
             RefWithin4(s, ArgPairs, ArgTolerance) => LaterFactor(BuiltTree, s) > 0]_vars

\* C4 (amended): for a chain of two pairs the later pair's blend factor is
\* computed from the earlier pair's output y, not from the sample: it is
\* clamp(1 - d(y, S2) / max(tolerance, 1e-5), 0, 1) over red, green and blue,
\* above 0 exactly when y lies within max(tolerance, 1e-5) of S2; when the
\* earlier pair has moved the colour out of that range the later pair is
\* suppressed and the output is y.
C4_LaterFactorFromEarlierOutput ==
    [][(BuildsRemapMaterial /\ Len(ArgPairs) = 2) =>
          \A s \in Samples :
             LET y == RefLerp3(s, ArgPairs[1][2],
                               RefFactor(RefDistance3(s, ArgPairs[1][1]), ArgTolerance))
                 d == RefDistance3(y, ArgPairs[2][1])
                 f == LaterFactor(BuiltTree, s)
             IN  /\ f = RefFactor(d, ArgTolerance)
                 /\ f > 0 <=> Unit * d < RefTolerance(ArgTolerance)
                 /\ f = 0 => RGBOf(BaseColor(BuiltTree, s)) = RGBOf(y)]_vars

\* C4 witness: the variant holds the material built from NearRed -> Red,
\* NearRed -> Blue with tolerance 0.08; Red is within the tolerance of both
\* sources and the later pair blends it with factor 0.5.
C4_Witness ==
    /\ HoldsRemapMaterial
    /\ call.tolerance = MultiRemapTolerance
    /\ remap_list = <<[source_color |-> NearRed, target_color |-> Red],
                      [source_color |-> NearRed, target_color |-> Blue]>>
    /\ Cardinality(NodesOfType(HeldTree, "ShaderNodeMixRGB")) = 2
    /\ RefWithin4(Red, RemapPairs(remap_list), MultiRemapTolerance)
    /\ LaterFactor(HeldTree, Red) = Half

-----------------------------------------------------------------------------
\* the k-th node of a type in creation order, and the nodes of pair i (from 1)
NthOfType(nt, type, k) ==
    CHOOSE i \in NodesOfType(nt, type) :
        Cardinality({j \in NodesOfType(nt, type) : j <= i}) = k
TexOf(nt) == NthOfType(nt, "ShaderNodeTexImage", 1)
BsdfOf(nt) == NthOfType(nt, "ShaderNodeBsdfPrincipled", 1)
MixOf(nt, i) == NthOfType(nt, "ShaderNodeMixRGB", i)
DistOf(nt, i) == NthOfType(nt, "ShaderNodeVectorMath", i)
ClampOf(nt, i) == NthOfType(nt, "ShaderNodeClamp", i)
PairOf(nt, i) ==
    {NthOfType(nt, "ShaderNodeRGB", 2 * i - 1), NthOfType(nt, "ShaderNodeRGB", 2 * i),
     DistOf(nt, i), NthOfType(nt, "ShaderNodeMath", 2 * i - 1),
     NthOfType(nt, "ShaderNodeMath", 2 * i), ClampOf(nt, i), MixOf(nt, i)}
ColorLink(from, to, socket) ==
    [from_node |-> from, from_socket |-> "Color", to_node |-> to, to_socket |-> socket]

Chained(nt) ==
    \A i \in 1..Cardinality(NodesOfType(nt, "ShaderNodeMixRGB")) :
       LET prev == IF i = 1 THEN TexOf(nt) ELSE MixOf(nt, i - 1)
       IN  /\ LinkInto(nt, DistOf(nt, i), "inputs[0]") = {ColorLink(prev, DistOf(nt, i), "inputs[0]")}
           /\ LinkInto(nt, MixOf(nt, i), "inputs[1]") = {ColorLink(prev, MixOf(nt, i), "inputs[1]")}
           /\ i > 1 => ~\E l \in nt.links : l.from_node = TexOf(nt) /\ l.to_node \in PairOf(nt, i)
           /\ LinkInto(nt, MixOf(nt, i), "Fac") =
                 {[from_node |-> ClampOf(nt, i), from_socket |-> "Result",
                   to_node |-> MixOf(nt, i), to_socket |-> "Fac"]}

\* C5: in every remap material the first input of pair i's distance node and
\* the first colour input of pair i's mix node are linked from the same
\* output, the texture's colour for the first pair and the previous pair's
\* mix node otherwise; no node of a later pair is linked from the texture,
\* and a pair's mix factor is linked from its own clamp node alone.
C5_PairsAreChained ==
    \A m \in 1..Len(materials) :
       materials[m].name = "RemapMaterial" => Chained(materials[m].node_tree)

\* C5 witness: the variant holds a remap material of MaxRemaps pairs whose
\* last distance node reads the mix node before it.
C5_Witness ==
    /\ HoldsRemapMaterial
    /\ Cardinality(NodesOfType(HeldTree, "ShaderNodeMixRGB")) = MaxRemaps
    /\ ColorLink(MixOf(HeldTree, MaxRemaps - 1), DistOf(HeldTree, MaxRemaps), "inputs[0]")
          \in HeldTree.links

-----------------------------------------------------------------------------
RECURSIVE Peel(_, _)
\* nodes with no link from a node still in S are removed until none is left
Peel(nt, S) ==
    LET free == {n \in S : ~\E l \in nt.links : l.to_node = n /\ l.from_node \in S}
    IN  IF S = {} THEN TRUE ELSE IF free = {} THEN FALSE ELSE Peel(nt, S \ free)
Acyclic(nt) == Peel(nt, 1..Len(nt.nodes))
Sinks(nt) == {n \in 1..Len(nt.nodes) : ~\E l \in nt.links : l.from_node = n}

OneTail(nt, n) ==
    /\ Acyclic(nt)
    /\ Cardinality(NodesOfType(nt, "ShaderNodeOutputMaterial")) = 1
    /\ Sinks(nt) = NodesOfType(nt, "ShaderNodeOutputMaterial")
    /\ Cardinality(NodesOfType(nt, "ShaderNodeBsdfPrincipled")) = 1
    /\ Cardinality(NodesOfType(nt, "ShaderNodeTexImage")) = 1
    /\ Cardinality(NodesOfType(nt, "ShaderNodeMixRGB")) = n
    /\ LinkInto(nt, BsdfOf(nt), "Base Color") =
          {ColorLink(IF n = 0 THEN TexOf(nt) ELSE MixOf(nt, n), BsdfOf(nt), "Base Color")}

\* C6: the tree built from a chain of N pairs, N >= 0, is acyclic, has one
\* output node, which is its only sink, one shading node, one image texture
\* and N mix nodes, and the one link into the shading node's base colour
\* comes from the last pair's mix node, from the texture when N = 0.
C6_OneTailFeedsBaseColor ==
    [][BuildsRemapMaterial => OneTail(BuiltTree, Len(ArgPairs))]_vars

\* C6 witness: the variant holds a remap material of MaxRemaps pairs whose
\* base colour is linked from the last mix node.
C6_Witness ==
    /\ HoldsRemapMaterial
    /\ Len(remap_list) = MaxRemaps
    /\ OneTail(HeldTree, MaxRemaps)

-----------------------------------------------------------------------------
Dividers(nt) ==
    {i \in NodesOfType(nt, "ShaderNodeMath") : nt.nodes[i].operation = "DIVIDE"}
ImageAvailable ==
    /\ ActiveMaterial(base_slots) # 0
    /\ SrcImage(materials[ActiveMaterial(base_slots)]) # ""

\* C7: for every tolerance passed, the divisor stored in every pair's divide
\* node is max(tolerance, 1e-5), above 0; a tolerance of 0 or less never
\* makes the call fail, and the tree it builds is the tree built with
\* tolerance 1e-5, with the same colour for every sample.
C7_ToleranceCoerced ==
    [][/\ BuildsRemapMaterial =>
             /\ Cardinality(Dividers(BuiltTree)) = Len(ArgPairs)
             /\ \A i \in Dividers(BuiltTree) :
                   /\ BuiltTree.nodes[i].defaults[2] = RefTolerance(ArgTolerance)
                   /\ BuiltTree.nodes[i].defaults[2] > 0
             /\ ArgTolerance <= 0 =>
                   LET atEpsilon == RemapTree(SrcImage(materials[ActiveMaterial(base_slots)]),
                                              ArgPairs, EPSILON)
                   IN  /\ BuiltTree = atEpsilon
                       /\ \A s \in Samples : BaseColor(BuiltTree, s) = BaseColor(atEpsilon, s)
       /\ (/\ call' # call
           /\ call'.op = "apply_color_remaps"
           /\ call'.tolerance <= 0
           /\ active_object /\ has_variant /\ ImageAvailable)
             => BuildsRemapMaterial /\ call'.ret = Len(materials')]_vars

\* C7 witness: apply_color_remaps was called with a tolerance below 0 and
\* returned a material whose divide node holds 1e-5: White renders Red and
\* NearWhite renders NearWhite.
C7_Witness ==
    /\ HoldsRemapMaterial
    /\ call.op = "apply_color_remaps"
    /\ call.tolerance < 0
    /\ call.ret = variant_slots[1]
    /\ remap_list = <<[source_color |-> White, target_color |-> Red]>>
    /\ Dividers(HeldTree) # {}
    /\ \A i \in Dividers(HeldTree) : HeldTree.nodes[i].defaults[2] = EPSILON
    /\ RGBOf(BaseColor(HeldTree, White)) = RGBOf(Red)
    /\ BaseColor(HeldTree, NearWhite) = NearWhite

-----------------------------------------------------------------------------
Printed(msg) == \E i \in 1..Len(call.prints) : call.prints[i] = msg
MultiRemapStep ==
    /\ call' # call
    /\ call'.op \in {"apply_multi_remap", "LV_OT_GenerateVariant"}
    /\ active_object /\ has_variant
ColorRemapsStep == call' # call /\ call'.op = "apply_color_remaps"
RemapNodeTypes ==
    {"ShaderNodeRGB", "ShaderNodeVectorMath", "ShaderNodeMath", "ShaderNodeClamp",
     "ShaderNodeMixRGB"}
\* the variant's slots are cleared and hold one new material, a copy of the
\* base object's active material
HoldsCopyOfBase ==
    /\ ActiveMaterial(base_slots) # 0
    /\ Len(materials') = Len(materials) + 1
    /\ variant_slots' = <<Len(materials')>>
    /\ materials'[Len(materials')] = materials[ActiveMaterial(base_slots)]
    /\ materials'[Len(materials')].name # "RemapMaterial"
\* a tree of texture, shading and output node alone that renders the sample
Identity(nt) ==
    /\ \A type \in RemapNodeTypes : NodesOfType(nt, type) = {}
    /\ LinkInto(nt, BsdfOf(nt), "Base Color") = {ColorLink(TexOf(nt), BsdfOf(nt), "Base Color")}
    /\ \A s \in Samples : BaseColor(nt, s) = s

\* C8 as stated: apply_multi_remap with an empty remap_list always leaves the
\* variant's cleared slots holding exactly one material, a copy of the base
\* object's active material, and builds no remap graph; apply_color_remaps
\* with an empty chain links the texture to the base colour and renders
\* every sample unchanged.
C8_EmptyListAlwaysCopies ==
    [][/\ (MultiRemapStep /\ Len(remap_list) = 0) => HoldsCopyOfBase
       /\ (BuildsRemapMaterial /\ Len(ArgPairs) = 0) => Identity(BuiltTree)]_vars

\* C8: apply_multi_remap with an empty remap_list and a base object that has
\* an active material clears the variant's slots and leaves in them one new
\* material, a copy of that material and no remap graph, which renders every
\* sample unchanged when the base material is the textured one; with no
\* active material on the base object it changes no slot and no material;
\* apply_color_remaps with an empty chain links the texture to the base
\* colour, creates no pair node and renders every sample unchanged.
C8_EmptyListCopiesActiveMaterial ==
    [][/\ (MultiRemapStep /\ Len(remap_list) = 0) =>
             IF ActiveMaterial(base_slots) # 0
             THEN /\ HoldsCopyOfBase
                  /\ ImageAvailable =>
                        \A s \in Samples : BaseColor(materials'[Len(materials')].node_tree, s) = s
             ELSE materials' = materials /\ variant_slots' = variant_slots
       /\ (BuildsRemapMaterial /\ Len(ArgPairs) = 0) => Identity(BuiltTree)]_vars

\* C8 witness: LV_OT_GenerateVariant ran with an empty list on a textured
\* base object, and the variant's one slot holds a copy of its material.
C8_Witness ==
    /\ call.op = "LV_OT_GenerateVariant"
    /\ Printed("No remaps defined")
    /\ Len(remap_list) = 0
    /\ Len(variant_slots) = 1
    /\ variant_slots[1] \notin {base_slots[i] : i \in 1..Len(base_slots)}
    /\ materials[variant_slots[1]] = materials[ActiveMaterial(base_slots)]
    /\ SrcImage(materials[variant_slots[1]]) # ""

-----------------------------------------------------------------------------
\* C9 as stated: when the base object's active material has no image texture
\* with an image, the build fails and no caller reports the invocation as a
\* success: no "applied successfully" message, no INFO report, no FINISHED.
C9_MissingImageNeverReportedAsSuccess ==
    Printed("No texture image found in base material.") =>
        /\ call.ret = 0
        /\ ~Printed("Multi-remap applied successfully.")
        /\ call.report[1] # "INFO"
        /\ call.result # "FINISHED"

-----------------------------------------------------------------------------
\* C10 as stated: an invocation of apply_color_remaps leaves the material
\* slots of both objects and the base object's material unchanged.
C10_BuilderLeavesAllSlots ==
    [][(ColorRemapsStep \/ BuildsRemapMaterial) =>
          /\ variant_slots' = variant_slots
          /\ base_slots' = base_slots
          /\ \A i \in 1..Len(materials) : materials'[i] = materials[i]]_vars

\* C10: an invocation of apply_color_remaps leaves the base object's slots
\* and every existing material unchanged; one that returns None changes
\* nothing, and one that returns a material has appended it to
\* bpy.data.materials as the one new material and has itself cleared the
\* variant's slots and put it there, so that the variant's slots hold the
\* returned material alone.
C10_BuilderRebindsVariantOnly ==
    [][(ColorRemapsStep \/ BuildsRemapMaterial) =>
          /\ base_slots' = base_slots
          /\ \A i \in 1..Len(materials) : materials'[i] = materials[i]
          /\ IF BuildsRemapMaterial
             THEN /\ Len(materials') = Len(materials) + 1
                  /\ variant_slots' = <<Len(materials')>>
                  /\ ColorRemapsStep => call'.ret = Len(materials')
             ELSE /\ call'.ret = 0
                  /\ materials' = materials
                  /\ variant_slots' = variant_slots]_vars

\* C10 witness: apply_color_remaps returned a new material; the variant's
\* slots hold it alone and the base object's slot still holds its own.
C10_Witness ==
    /\ call.op = "apply_color_remaps"
    /\ call.ret = Len(materials)
    /\ variant_slots = <<call.ret>>
    /\ base_slots = <<1>>
    /\ call.ret # 1
    /\ materials[call.ret].name = "RemapMaterial"
    /\ materials[1] = BaseMaterials["textured"][1]

-----------------------------------------------------------------------------
\* the remap materials that exist in bpy.data.materials
GeneratedRemaps == {i \in 1..Len(materials) : materials[i].name = "RemapMaterial"}
\* a successful invocation adds one material, changes no earlier one, and
\* leaves the variant's slots holding the new material alone
BuildsAfresh ==
    /\ Len(materials') = Len(materials) + 1
    /\ \A i \in 1..Len(materials) : materials'[i] = materials[i]
    /\ variant_slots' = <<Len(materials')>>
\* the newest material is the only remap material that still exists
EarlierDiscarded == GeneratedRemaps' = {Len(materials')}

\* C11 as stated: over any sequence of invocations on the same pair, each
\* successful one builds a new material without changing the nodes or links
\* of an earlier one, the variant's slots then hold that newest material
\* alone, and it is the only generated remap material that still exists:
\* there is never more than one.
C11_OnlyNewestRemapExists ==
    [][BuildsRemapMaterial => BuildsAfresh /\ EarlierDiscarded]_vars

====
